---- MODULE Spec2Model ----
(***************************************************************************)
(* PTT loan-board notifier: the tiered fanout path (articles, users and    *)
(* notifications in the relational store, driven by crawl_and_notify,      *)
(* send_hourly_notifications and cleanup_old_articles) and the             *)
(* personalized mail path (AutoMailService over the sent_mails ledger).    *)
(***************************************************************************)
EXTENDS Integers, Sequences, FiniteSets, TLC

(***************************************************************************)
(* Bounds of the exploration.                                              *)
(***************************************************************************)
MaxArticles == 2      \* rows the articles serial may hand out
MaxBatch == 2         \* candidates in one feed batch
MaxDay == 2           \* last day the clock reaches
MaxDeliveries == 2    \* successful deliveries counted per (user, article row)
MaxThreads == 2       \* delayed_send threads one run may start
MaxClock == 2         \* last half day the clock of the personalized path reaches
MaxCalls == 1         \* calls of process_article / process_articles_batch in one run
MaxRecords == 3       \* rows the notifications serial hands out to direct crud calls
MaxBacklog == 11      \* pending records one recipient has when a batched tick starts
MaxText == 2          \* characters in a title or a body given to the keyword filters

(***************************************************************************)
(* Program constants and domains.                                          *)
(***************************************************************************)
RETENTION_DAYS == 1   \* settings.RETENTION_DAYS (environment-configured)
BundleCap == 10       \* create_batch_flex_message: articles[:10]
DAILY_LIMIT == 1      \* auto_mail_settings.DAILY_LIMIT (environment-configured)
SCHEDULE_START_HOUR == 7    \* settings.SCHEDULE_START_HOUR
SCHEDULE_END_HOUR == 20     \* settings.SCHEDULE_END_HOUR
Hours == 0..23              \* datetime.now(tz).hour

NULL == -1            \* SQL NULL / Python None in integer-valued columns
PttBot == 1           \* a PyPtt.API object held in PTTMailer.ptt_bot

PREMIUM == "premium"
STANDARD == "standard"
UserTier == {PREMIUM, STANDARD}

LineUserIds == {"r1", "r2"}          \* LINE user ids that may register
PttArticleIds == {"A1", "A2"}        \* natural keys the feed may show
NoArticleId == "none"                \* a candidate without article_id

\* the two entry points of crawl_and_notify and of send_hourly_notifications
CrawlProcs == {"crawl_job", "trigger"}
HourlyProcs == {"hourly_notification_job", "trigger_hourly"}

VARIABLES
    articles,               \* table articles: set of rows
    notifications,          \* table notifications: set of rows
    users,                  \* table users: line_user_id -> row
    next_article_id,        \* serial of articles.id
    next_notification_id,   \* serial of notifications.id
    now,                    \* the clock, in days
    crawl,                  \* crawl_and_notify: locals of each running call
    hourly,                 \* send_hourly_notifications: locals of each call
    cleanup,                \* cleanup_old_articles: locals of the call
    delivered,              \* transport: successful deliveries per (user, article row)
    sent_mails,             \* table sent_mails of the personalized path
    next_mail_id,           \* AUTOINCREMENT of sent_mails.id
    caller,                 \* process_article / process_articles_batch: locals of the call
    threads,                \* the delayed_send threads that have not finished
    next_thread,            \* threads started so far, plus one
    mailer,                 \* the PTTMailer shared by every send
    clock,                  \* wall clock of the personalized path, in half days
    host_east,              \* the host's zone is ahead of UTC
    in_flight_at_limit,     \* sends under way when today's count reached the limit
    intake,                 \* a candidate and what the keyword filter of each path gave
    dropped,                \* article_ids whose mail generation has failed
    hour                    \* the hour of the day in settings.TIMEZONE

tierVars == <<articles, notifications, users, next_article_id,
              next_notification_id, now, crawl, hourly, cleanup, delivered, intake,
              dropped, hour>>

mailVars == <<sent_mails, next_mail_id, caller, threads, next_thread, mailer,
              clock, host_east, in_flight_at_limit, intake, dropped, hour>>

vars == <<articles, notifications, users, next_article_id,
          next_notification_id, now, crawl, hourly, cleanup, delivered,
          sent_mails, next_mail_id, caller, threads, next_thread, mailer,
          clock, host_east, in_flight_at_limit, intake, dropped, hour>>

dbVars == <<articles, notifications, users, next_article_id, next_notification_id>>

(***************************************************************************)
(* Helpers on sequences and sets.                                          *)
(***************************************************************************)
Range(s) == {s[i] : i \in 1..Len(s)}

\* every ordering of a finite set (a query without ORDER BY)
Orderings(S) == {s \in [1..Cardinality(S) -> S] : Range(s) = S}

SeqsUpTo(S, n) == UNION {[1..k -> S] : k \in 0..n}

\* the batches crawl_new_articles may return when the board shows these keys
Batches(keys) == SeqsUpTo(keys \cup {NoArticleId}, MaxBatch)

(***************************************************************************)
(* database/crud.py                                                        *)
(***************************************************************************)
ArticleRowIds == {a.id : a \in articles}

\* get_article_by_ptt_id: the stored row with this natural key, or NULL
get_article_by_ptt_id(article_id) ==
    IF \E a \in articles : a.article_id = article_id
    THEN (CHOOSE a \in articles : a.article_id = article_id).id
    ELSE NULL

\* the unique index on articles.article_id rejects the insert
UniqueViolation_off(article_id) ==
    FALSE

UniqueViolation(article_id) ==
    \E a \in articles : a.article_id = article_id

\* the row create_article inserts
NewArticle(article_id) ==
    [id |-> next_article_id, article_id |-> article_id, created_at |-> now]

\* the row create_notification inserts (pending: sent_at = NULL)
NewNotification(user_id, article) ==
    [id |-> next_notification_id, user_id |-> user_id,
     article_id |-> article, sent_at |-> NULL]

get_all_active_users == {u \in DOMAIN users : users[u].is_active}

\* the query without its tier filter
get_active_users_by_tier_any(tier) ==
    {u \in DOMAIN users : users[u].is_active}

get_active_users_by_tier(tier) ==
    {u \in DOMAIN users : users[u].tier = tier /\ users[u].is_active}

get_pending_notifications_for_user(user_id) ==
    {n \in notifications : n.user_id = user_id /\ n.sent_at = NULL}

has_notification_for_article(user_id, article) ==
    \E n \in notifications : n.user_id = user_id /\ n.article_id = article

\* an update that clears the sent_at of a row that has one
MarkSent_toggle(ids) ==
    {IF n.id \in ids THEN [n EXCEPT !.sent_at = IF @ = NULL THEN now ELSE NULL]
     ELSE n : n \in notifications}

\* mark_notification_sent / mark_notifications_sent: UPDATE ... WHERE id IN ids
MarkSent(ids) ==
    {IF n.id \in ids THEN [n EXCEPT !.sent_at = now] ELSE n : n \in notifications}

\* delete_old_articles: cutoff_date and the rows with created_at < cutoff_date
CutoffDate == now - RETENTION_DAYS

OldArticleIds == {a.id : a \in {b \in articles : b.created_at < CutoffDate}}

(***************************************************************************)
(* Initial state: empty tables, no task running.                           *)
(***************************************************************************)
CrawlIdle ==
    [pc |-> "idle", articles |-> <<>>, premium_users |-> <<>>, standard_users |-> <<>>,
     todo_premium |-> <<>>, todo_standard |-> <<>>,
     db_article |-> NULL, loaded |-> FALSE, notification |-> NULL]

HourlyIdle ==
    [pc |-> "idle", standard_users |-> <<>>, notification_ids |-> {}]

CleanupIdle ==
    [pc |-> "idle", cutoff_date |-> NULL, article_ids |-> {}, locked |-> {}, count |-> 0]

\* the caller of the personalized path between two calls, after `calls` calls
CallerIdle(calls) ==
    [pc |-> "idle", batch |-> FALSE, immediate |-> FALSE, todo |-> <<>>, calls |-> calls]

\* no candidate is at the keyword filters
NoIntake ==
    [candidate |-> [title |-> <<>>, content |-> <<>>],
     scraped |-> FALSE, filtered |-> <<>>, checked |-> FALSE, accepted |-> FALSE]

Init ==
    /\ articles = {}
    /\ notifications = {}
    /\ users = [u \in {} |-> 0]
    /\ next_article_id = 1
    /\ next_notification_id = 1
    /\ now = 0
    /\ crawl = [p \in CrawlProcs |-> CrawlIdle]
    /\ hourly = [h \in HourlyProcs |-> HourlyIdle]
    /\ cleanup = CleanupIdle
    /\ delivered = [x \in LineUserIds \X (1..MaxArticles) |-> 0]
    /\ sent_mails = {}
    /\ next_mail_id = 1
    /\ caller = CallerIdle(0)
    /\ threads = {}
    /\ next_thread = 1
    /\ mailer = [is_logged_in |-> FALSE, ptt_bot |-> NULL]
    /\ clock = 0
    /\ host_east \in BOOLEAN
    /\ in_flight_at_limit = [queued |-> 0, passed |-> 0]
    /\ intake = NoIntake
    /\ dropped = {}
    /\ hour \in Hours

(***************************************************************************)
(* main.py: the scheduled jobs run in the scheduler's worker threads; the  *)
(* HTTP handlers run one at a time on the event loop, each to completion.  *)
(***************************************************************************)
LoopFree == crawl["trigger"].pc = "idle" /\ hourly["trigger_hourly"].pc = "idle"

CanStart(t) == t \in {"trigger", "trigger_hourly"} => LoopFree

(***************************************************************************)
(* POST /users (get_or_create_user) and PUT /users/{id}/tier               *)
(* (update_user_tier).                                                     *)
(***************************************************************************)
\* a registration that gives an existing user the tier passed
get_or_create_user_retier(line_user_id, tier) ==
    IF line_user_id \in DOMAIN users
    THEN [users EXCEPT ![line_user_id].tier = tier]
    ELSE users @@ (line_user_id :> [tier |-> tier, is_active |-> TRUE])

get_or_create_user(line_user_id, tier) ==
    IF line_user_id \in DOMAIN users
    THEN users
    ELSE users @@ (line_user_id :> [tier |-> tier, is_active |-> TRUE])

add_user(line_user_id, tier) ==
    /\ LoopFree
    /\ users' = get_or_create_user(line_user_id, tier)
    /\ users' # users
    /\ UNCHANGED <<articles, notifications, next_article_id, next_notification_id,
                   now, crawl, hourly, cleanup, delivered>>
    /\ UNCHANGED mailVars

update_user_tier(line_user_id, tier) ==
    /\ LoopFree
    /\ line_user_id \in DOMAIN users
    /\ users[line_user_id].tier # tier
    /\ users' = [users EXCEPT ![line_user_id].tier = tier]
    /\ UNCHANGED <<articles, notifications, next_article_id, next_notification_id,
                   now, crawl, hourly, cleanup, delivered>>
    /\ UNCHANGED mailVars

(***************************************************************************)
(* scheduler/jobs.py: crawl_and_notify.  The locals keep what the loops    *)
(* have still to visit: articles, premium_users and standard_users start   *)
(* as the whole lists and lose their head when the loop moves on.          *)
(***************************************************************************)
\* a return after which the job is not run again
CrawlReturn_stopped(p) ==
    crawl' = [crawl EXCEPT ![p] = [CrawlIdle EXCEPT !.pc = "stopped"]]

CrawlReturn(p) ==
    crawl' = [crawl EXCEPT ![p] = CrawlIdle]

\* what the loop does with a candidate after the lookup (lines 60-68)
LookupOutcome_fallthrough(article_id) ==
    IF article_id = NoArticleId THEN [pc |-> "loop", db_article |-> NULL]
    ELSE IF get_article_by_ptt_id(article_id) # NULL
         THEN [pc |-> "fanout", db_article |-> get_article_by_ptt_id(article_id)]
         ELSE [pc |-> "create", db_article |-> NULL]

LookupOutcome(article_id) ==
    IF article_id = NoArticleId THEN [pc |-> "loop", db_article |-> NULL]
    ELSE IF get_article_by_ptt_id(article_id) # NULL
         THEN [pc |-> "loop", db_article |-> NULL]
         ELSE [pc |-> "create", db_article |-> NULL]

\* lines 56-57: [u for u in all_users if u.tier == tier]
UsersOfTier(all_users, tier) == {u \in all_users : users[u].tier = tier}

\* entering the fanout of lines 82-99 for the row db_article
EnterFanout(c, db_article) ==
    [c EXCEPT !.pc = IF Len(c.premium_users) > 0 THEN "push" ELSE "standard",
              !.todo_premium = c.premium_users, !.todo_standard = c.standard_users,
              !.db_article = db_article, !.loaded = TRUE]

\* the tick gives up after a premium user
AfterPremium_stop(c) ==
    CrawlIdle

\* the premium loop moves to its next user, or the standard loop starts
AfterPremium(c) ==
    IF Len(c.todo_premium) > 1
    THEN [c EXCEPT !.pc = "push", !.todo_premium = Tail(@), !.notification = NULL]
    ELSE [c EXCEPT !.pc = "standard", !.todo_premium = <<>>, !.notification = NULL]

\* a window check that lets every hour through
is_within_schedule_hours_always == TRUE

\* lines 19-23: SCHEDULE_START_HOUR <= now.hour < SCHEDULE_END_HOUR
is_within_schedule_hours ==
    SCHEDULE_START_HOUR <= hour /\ hour < SCHEDULE_END_HOUR

\* lines 39-46: outside the window the tick returns, inside it the fetch starts
crawl_start(p) ==
    /\ crawl[p].pc = "idle"
    /\ CanStart(p)
    /\ IF ~is_within_schedule_hours THEN CrawlReturn(p)
       ELSE crawl' = [crawl EXCEPT ![p] = [CrawlIdle EXCEPT !.pc = "fetch"]]
    /\ UNCHANGED <<dbVars, now, hourly, cleanup, delivered>>
    /\ UNCHANGED mailVars

\* lines 47-57: crawl_new_articles returns (an empty list when the fetch
\* failed or nothing matched), then the snapshot of the active users
crawl_fetch(p, feed) ==
    /\ crawl[p].pc = "fetch"
    /\ \E b \in feed :
         IF b = <<>> THEN CrawlReturn(p)
         ELSE \E pu \in Orderings(UsersOfTier(get_all_active_users, PREMIUM)),
                 su \in Orderings(UsersOfTier(get_all_active_users, STANDARD)) :
                crawl' = [crawl EXCEPT ![p] =
                       [CrawlIdle EXCEPT !.pc = "loop", !.articles = b,
                                         !.premium_users = pu, !.standard_users = su]]
    /\ UNCHANGED <<dbVars, now, hourly, cleanup, delivered>>
    /\ UNCHANGED mailVars

\* the clock of the schedule window moves on by an hour
hour_passes ==
    /\ hour' = (hour + 1) % 24
    /\ UNCHANGED <<dbVars, now, crawl, hourly, cleanup, delivered, intake, dropped>>
    /\ UNCHANGED <<sent_mails, next_mail_id, caller, threads, next_thread, mailer,
                   clock, host_east, in_flight_at_limit>>

\* lines 59-68: next candidate, lookup of its natural key
crawl_lookup(p) ==
    LET c == crawl[p] IN
    /\ c.pc = "loop"
    /\ IF c.articles = <<>>
       THEN CrawlReturn(p)
       ELSE LET o == LookupOutcome(Head(c.articles)) IN
            crawl' = [crawl EXCEPT ![p] =
                  IF o.pc = "loop" THEN [c EXCEPT !.articles = Tail(@)]
                  ELSE IF o.pc = "create" THEN [c EXCEPT !.pc = "create"]
                  ELSE EnterFanout(c, o.db_article)]
    /\ UNCHANGED <<dbVars, now, hourly, cleanup, delivered>>
    /\ UNCHANGED mailVars

\* lines 71-80: create_article (commit, refresh); a duplicate key raises
crawl_create(p) ==
    LET c == crawl[p]
        article_id == Head(c.articles) IN
    /\ c.pc = "create"
    /\ IF UniqueViolation(article_id)
       THEN /\ CrawlReturn(p)
            /\ UNCHANGED <<articles, next_article_id>>
       ELSE /\ next_article_id <= MaxArticles
            /\ articles' = articles \cup {NewArticle(article_id)}
            /\ next_article_id' = next_article_id + 1
            /\ crawl' = [crawl EXCEPT ![p] = EnterFanout(c, next_article_id)]
    /\ UNCHANGED <<notifications, users, next_notification_id, now, hourly, cleanup, delivered>>
    /\ UNCHANGED mailVars

\* lines 83-91: push_article_notification to the next premium user
crawl_push(p) ==
    LET c == crawl[p]
        u == Head(c.todo_premium) IN
    /\ c.pc = "push"
    /\ IF ~c.loaded /\ c.db_article \notin ArticleRowIds
       THEN /\ CrawlReturn(p)                 \* the expired row cannot be reloaded
            /\ UNCHANGED delivered
       ELSE \E success \in BOOLEAN :
              IF success
              THEN /\ delivered[<<u, c.db_article>>] < MaxDeliveries
                   /\ delivered' = [delivered EXCEPT ![<<u, c.db_article>>] = @ + 1]
                   /\ crawl' = [crawl EXCEPT ![p] = [c EXCEPT !.pc = "record"]]
              ELSE /\ crawl' = [crawl EXCEPT ![p] = AfterPremium(c)]
                   /\ UNCHANGED delivered
    /\ UNCHANGED <<dbVars, now, hourly, cleanup>>
    /\ UNCHANGED mailVars

\* line 93: create_notification for the user just pushed to (commit, refresh)
crawl_record(p) ==
    LET c == crawl[p]
        u == Head(c.todo_premium) IN
    /\ c.pc = "record"
    /\ IF c.db_article \notin ArticleRowIds
       THEN /\ CrawlReturn(p)                 \* foreign key articles.id
            /\ UNCHANGED <<notifications, next_notification_id>>
       ELSE /\ notifications' = notifications \cup {NewNotification(u, c.db_article)}
            /\ next_notification_id' = next_notification_id + 1
            /\ crawl' = [crawl EXCEPT ![p] =
                   [c EXCEPT !.pc = "mark", !.notification = next_notification_id,
                             !.loaded = FALSE]]
    /\ UNCHANGED <<articles, users, next_article_id, now, hourly, cleanup, delivered>>
    /\ UNCHANGED mailVars

\* line 94: mark_notification_sent (waits while the purge holds the row)
crawl_mark(p) ==
    LET c == crawl[p] IN
    /\ c.pc = "mark"
    /\ c.notification \notin cleanup.locked
    /\ notifications' = MarkSent({c.notification})
    /\ crawl' = [crawl EXCEPT ![p] = AfterPremium(c)]
    /\ UNCHANGED <<articles, users, next_article_id, next_notification_id,
                   now, hourly, cleanup, delivered>>
    /\ UNCHANGED mailVars

\* lines 97-99: the next standard user gets a pending record
crawl_standard(p) ==
    LET c == crawl[p] IN
    /\ c.pc = "standard"
    /\ IF c.todo_standard = <<>>
       THEN /\ crawl' = [crawl EXCEPT ![p] =
                   [c EXCEPT !.pc = "loop", !.articles = Tail(@),
                             !.db_article = NULL, !.loaded = FALSE]]
            /\ UNCHANGED <<notifications, next_notification_id>>
       ELSE LET u == Head(c.todo_standard) IN
            IF c.db_article \notin ArticleRowIds
            THEN /\ CrawlReturn(p)
                 /\ UNCHANGED <<notifications, next_notification_id>>
            ELSE IF has_notification_for_article(u, c.db_article)
            THEN /\ crawl' = [crawl EXCEPT ![p] = [c EXCEPT !.todo_standard = Tail(@)]]
                 /\ UNCHANGED <<notifications, next_notification_id>>
            ELSE /\ notifications' = notifications \cup {NewNotification(u, c.db_article)}
                 /\ next_notification_id' = next_notification_id + 1
                 /\ crawl' = [crawl EXCEPT ![p] =
                        [c EXCEPT !.todo_standard = Tail(@), !.loaded = FALSE]]
    /\ UNCHANGED <<articles, users, next_article_id, now, hourly, cleanup, delivered>>
    /\ UNCHANGED mailVars

\* lines 103-107: `except Exception` catches whatever the tick raises and the
\* function returns None; no exception leaves crawl_and_notify
crawl_and_notify_raises == FALSE

\* main.py lines 101-109: what POST /trigger answers
trigger_crawl(raised) ==
    IF raised THEN "error" ELSE "success"

\* lines 103-107: the tick is cut short (a database error raised by the
\* statement under way, or the process stops); what was committed stays
crawl_abort(p) ==
    /\ crawl[p].pc # "idle"
    /\ CrawlReturn(p)
    /\ UNCHANGED <<dbVars, now, hourly, cleanup, delivered>>
    /\ UNCHANGED mailVars

(***************************************************************************)
(* scheduler/jobs.py: send_hourly_notifications                            *)
(***************************************************************************)
HourlyReturn(h) ==
    hourly' = [hourly EXCEPT ![h] = HourlyIdle]

\* the n lowest ids of a set of ids
RECURSIVE Lowest(_, _)
Lowest(ids, n) ==
    IF n = 0 \/ ids = {} THEN {}
    ELSE LET m == CHOOSE i \in ids : \A j \in ids : i <= j
         IN {m} \cup Lowest(ids \ {m}, n - 1)

\* a carousel that holds the first article only
Bundle_one(notification_ids) == Lowest(notification_ids, 1)

\* notification/line_bot.py: the carousel holds articles[:10]
Bundle(notification_ids) == Lowest(notification_ids, BundleCap)

\* articles the bundle shows: the rows the bundled notifications refer to
BundledArticles(notification_ids) ==
    {n.article_id : n \in {m \in notifications : m.id \in Bundle(notification_ids)}}

\* line 119: the active standard users
hourly_start(h) ==
    /\ hourly[h].pc = "idle"
    /\ CanStart(h)
    /\ \E su \in Orderings(get_active_users_by_tier(STANDARD)) :
         hourly' = [hourly EXCEPT ![h] =
                       [HourlyIdle EXCEPT !.pc = "user", !.standard_users = su]]
    /\ UNCHANGED <<dbVars, now, crawl, cleanup, delivered>>
    /\ UNCHANGED mailVars

\* lines 121-139: the pending records of the next user
hourly_pending(h) ==
    LET c == hourly[h] IN
    /\ c.pc = "user"
    /\ IF c.standard_users = <<>>
       THEN HourlyReturn(h)
       ELSE LET pending == get_pending_notifications_for_user(Head(c.standard_users)) IN
            hourly' = [hourly EXCEPT ![h] =
                  IF pending = {} THEN [c EXCEPT !.standard_users = Tail(@)]
                  ELSE [c EXCEPT !.pc = "push",
                                 !.notification_ids = {n.id : n \in pending}]]
    /\ UNCHANGED <<dbVars, now, crawl, cleanup, delivered>>
    /\ UNCHANGED mailVars

\* line 142: push_batch_notification, one call for the whole bundle
hourly_push(h) ==
    LET c == hourly[h]
        u == Head(c.standard_users) IN
    /\ c.pc = "push"
    /\ \E success \in BOOLEAN :
         IF success
         THEN /\ \A a \in BundledArticles(c.notification_ids) :
                    delivered[<<u, a>>] < MaxDeliveries
              /\ delivered' = [x \in DOMAIN delivered |->
                    IF x[1] = u /\ x[2] \in BundledArticles(c.notification_ids)
                    THEN delivered[x] + 1 ELSE delivered[x]]
              /\ hourly' = [hourly EXCEPT ![h] = [c EXCEPT !.pc = "mark"]]
         ELSE /\ hourly' = [hourly EXCEPT ![h] =
                    [c EXCEPT !.pc = "user", !.standard_users = Tail(@),
                              !.notification_ids = {}]]
              /\ UNCHANGED delivered
    /\ UNCHANGED <<dbVars, now, crawl, cleanup>>
    /\ UNCHANGED mailVars

\* a tick that forgets to mark what it delivered
hourly_mark_none(h) ==
    LET c == hourly[h] IN
    /\ c.pc = "mark"
    /\ hourly' = [hourly EXCEPT ![h] =
           [c EXCEPT !.pc = "user", !.standard_users = Tail(@), !.notification_ids = {}]]
    /\ UNCHANGED <<dbVars, now, crawl, cleanup, delivered>>
    /\ UNCHANGED mailVars

\* lines 144-147: mark_notifications_sent (waits while the purge holds a row)
hourly_mark(h) ==
    LET c == hourly[h] IN
    /\ c.pc = "mark"
    /\ c.notification_ids \cap cleanup.locked = {}
    /\ notifications' = MarkSent(c.notification_ids)
    /\ hourly' = [hourly EXCEPT ![h] =
           [c EXCEPT !.pc = "user", !.standard_users = Tail(@), !.notification_ids = {}]]
    /\ UNCHANGED <<articles, users, next_article_id, next_notification_id,
                   now, crawl, cleanup, delivered>>
    /\ UNCHANGED mailVars

(***************************************************************************)
(* scheduler/jobs.py: cleanup_old_articles over crud.delete_old_articles   *)
(***************************************************************************)
\* crud.py lines 44-51: the old rows; none: return 0
cleanup_select ==
    /\ cleanup.pc = "idle"
    /\ IF OldArticleIds = {}
       THEN cleanup' = CleanupIdle
       ELSE cleanup' = [CleanupIdle EXCEPT !.pc = "delete_notifications",
                                           !.cutoff_date = CutoffDate,
                                           !.article_ids = OldArticleIds]
    /\ UNCHANGED <<dbVars, now, crawl, hourly, delivered>>
    /\ UNCHANGED mailVars

\* crud.py line 52: DELETE FROM notifications, not yet committed
cleanup_delete_notifications ==
    /\ cleanup.pc = "delete_notifications"
    /\ cleanup' = [cleanup EXCEPT !.pc = "delete_articles",
           !.locked = {n.id : n \in {m \in notifications : m.article_id \in cleanup.article_ids}}]
    /\ UNCHANGED <<dbVars, now, crawl, hourly, delivered>>
    /\ UNCHANGED mailVars

\* rows the transaction removes at commit
PurgedNotifications == {n \in notifications : n.id \in cleanup.locked}

PurgedArticles_all == articles

PurgedArticles == {a \in articles : a.id \in cleanup.article_ids}

\* a record committed after line 52 still refers to a row of line 53
ForeignKeyViolation ==
    \E n \in notifications \ PurgedNotifications : n.article_id \in cleanup.article_ids

\* crud.py lines 53-55: DELETE FROM articles, commit, return the count
cleanup_delete_articles ==
    /\ cleanup.pc = "delete_articles"
    /\ IF ForeignKeyViolation
       THEN /\ cleanup' = CleanupIdle
            /\ UNCHANGED <<articles, notifications>>
       ELSE /\ notifications' = notifications \ PurgedNotifications
            /\ articles' = articles \ PurgedArticles
            /\ cleanup' = [CleanupIdle EXCEPT !.count = Cardinality(PurgedArticles)]
    /\ UNCHANGED <<users, next_article_id, next_notification_id, now, crawl, hourly, delivered>>
    /\ UNCHANGED mailVars

\* jobs.py lines 168-170: a database error part-way, rollback
cleanup_fail ==
    /\ cleanup.pc \in {"delete_notifications", "delete_articles"}
    /\ cleanup' = CleanupIdle
    /\ UNCHANGED <<dbVars, now, crawl, hourly, delivered>>
    /\ UNCHANGED mailVars

(***************************************************************************)
(* database/crud.py called directly, on any user and any stored row.       *)
(***************************************************************************)
\* crud.py lines 111-121: insert a pending row, commit, refresh
create_notification(user_id, article) ==
    /\ user_id \in DOMAIN users
    /\ article \in ArticleRowIds
    /\ next_notification_id <= MaxRecords
    /\ notifications' = notifications \cup {NewNotification(user_id, article)}
    /\ next_notification_id' = next_notification_id + 1
    /\ UNCHANGED <<articles, users, next_article_id, now, crawl, hourly, cleanup, delivered>>
    /\ UNCHANGED mailVars

\* crud.py lines 142-147: the row, if it exists, gets sent_at = utcnow()
mark_notification_sent(notification_id) ==
    /\ \E n \in notifications : n.id = notification_id
    /\ notifications' = MarkSent({notification_id})
    /\ UNCHANGED <<articles, users, next_article_id, next_notification_id,
                   now, crawl, hourly, cleanup, delivered>>
    /\ UNCHANGED mailVars

(***************************************************************************)
(* The clock.                                                              *)
(***************************************************************************)
advance_day ==
    /\ now < MaxDay
    /\ now' = now + 1
    /\ UNCHANGED <<dbVars, crawl, hourly, cleanup, delivered>>
    /\ UNCHANGED mailVars

\* the state after construction on a host whose zone is UTC, at 07:00
InitUTC == Init /\ ~host_east /\ hour = SCHEDULE_START_HOUR

(***************************************************************************)
(* auto_mail: the articles handed to the personalized path.  A text is     *)
(* "loan" when it contains a configured keyword and "chat" when not.       *)
(***************************************************************************)
\* texts are sequences of characters; the letter L in both cases, and o
Chars == {"L", "l", "o"}

Texts == UNION {[1..k -> Chars] : k \in 0..MaxText}

\* str.lower()
lower(text) == [i \in 1..Len(text) |-> IF text[i] = "L" THEN "l" ELSE text[i]]

\* Python's `keyword in text`: the keyword is a substring of the text
Occurs(keyword, text) ==
    \E i \in 0..(Len(text) - Len(keyword)) : SubSeq(text, i + 1, i + Len(keyword)) = keyword

\* settings.keywords_list, the same KEYWORDS in both configurations
keywords_list == << <<"L", "o">> >>

\* the title and the body of the posts of the personalized path
Loan == <<"L", "o">>
Chat == <<"o">>

Post(article_id, author, title, content) ==
    [article_id |-> article_id, author |-> author, title |-> title, content |-> content]

Posts ==
    {Post("X1", "a", Loan, Chat), Post("X2", "a", Loan, Chat),
     Post("X3", "b", Chat, Loan), Post("X3", "b", Chat, Chat),
     Post("X2", "", Loan, Chat)}

PostBatches == SeqsUpTo(Posts, MaxBatch)

\* crawler/parser.py filter_by_keywords: the articles with a keyword in the title
filter_by_keywords(candidates, keywords) ==
    SelectSeq(candidates,
              LAMBDA a : \E j \in 1..Len(keywords) : Occurs(keywords[j], a.title))

\* AutoMailService.check_article_keywords: text = f"{title} {content}".lower(),
\* any keyword.lower() in text
check_article_keywords(article) ==
    LET text == lower(article.title \o <<" ">> \o article.content) IN
    \E j \in 1..Len(keywords_list) : Occurs(lower(keywords_list[j]), text)

(***************************************************************************)
(* auto_mail/mail_tracker.py.  sent_at is CURRENT_TIMESTAMP, a UTC time;   *)
(* date.today() is the date of the host's zone.                            *)
(***************************************************************************)
LocalDateAt(t) == t \div 2 + 1

UtcDateAt(t) == IF host_east THEN (t + 1) \div 2 ELSE t \div 2 + 1

\* the date in settings.TIMEZONE (Asia/Taipei): the host's own zone when
\* the host runs east of UTC, half a day ahead of a host that runs on UTC
ConfiguredDateAt(t) == IF host_east THEN LocalDateAt(t) ELSE (t + 1) \div 2 + 1

\* a cooldown that counts failed sends as well
has_sent_to_any(ptt_id) ==
    \E r \in sent_mails : r.ptt_id = ptt_id

has_sent_to(ptt_id) ==
    \E r \in sent_mails : r.ptt_id = ptt_id /\ r.success

has_processed_article(article_id) ==
    \E r \in sent_mails : r.article_id = article_id

\* SQLite's DATE(sent_at): the UTC date of the stored UTC timestamp
DATE(sent_at) == UtcDateAt(sent_at)

\* get_today_count over a ledger, read at time t
TodayCount(ledger, t) ==
    Cardinality({r \in ledger : DATE(r.sent_at) = LocalDateAt(t) /\ r.success})

get_today_count == TodayCount(sent_mails, clock)

can_send_today_inclusive == get_today_count <= DAILY_LIMIT

can_send_today == get_today_count < DAILY_LIMIT

max(a, b) == IF a >= b THEN a ELSE b

get_remaining_quota == max(0, DAILY_LIMIT - get_today_count)

\* the row record_sent inserts
NewMailRecord(ptt_id, article_id, success) ==
    [id |-> next_mail_id, ptt_id |-> ptt_id, article_id |-> article_id,
     sent_at |-> clock, success |-> success]

(***************************************************************************)
(* auto_mail/auto_mail_service.py: process_article, process_articles_batch *)
(***************************************************************************)
\* the refusal without the lookup of the article in the ledger
Refused_unledgered(article) ==
    \/ article.article_id = "" \/ article.author = "" \/ article.title = <<>>
    \/ has_sent_to(article.author)
    \/ ~can_send_today

\* the refusal without the validation of the required fields
Refused_unvalidated(article) ==
    \/ has_processed_article(article.article_id)
    \/ has_sent_to(article.author)
    \/ ~can_send_today

\* process_article lines 76-94: the article is refused before generation
Refused(article) ==
    \/ article.article_id = "" \/ article.author = "" \/ article.title = <<>>
    \/ has_processed_article(article.article_id)
    \/ has_sent_to(article.author)
    \/ ~can_send_today

\* the call goes on with the rest of its articles, or returns
CallerNext(c) ==
    IF Len(c.todo) > 1 THEN [c EXCEPT !.pc = "check", !.todo = Tail(@)]
    ELSE CallerIdle(c.calls)

\* a call of process_article (one article) or of process_articles_batch
mail_call ==
    /\ caller.pc = "idle"
    /\ caller.calls < MaxCalls
    /\ \E batch \in BOOLEAN, immediate \in BOOLEAN, b \in PostBatches :
         /\ batch \/ Len(b) = 1
         /\ b # <<>>
         /\ caller' = [pc |-> "check", batch |-> batch, immediate |-> immediate,
                       todo |-> b, calls |-> caller.calls + 1]
    /\ UNCHANGED <<sent_mails, next_mail_id, threads, next_thread, mailer,
                   clock, host_east, in_flight_at_limit>>
    /\ UNCHANGED tierVars

\* batch lines 219-228 and process_article lines 76-94 for the next article
mail_check ==
    LET article == Head(caller.todo) IN
    /\ caller.pc = "check"
    /\ caller' =
         IF caller.batch /\ ~check_article_keywords(article) THEN CallerNext(caller)
         ELSE IF caller.batch /\ ~can_send_today THEN CallerIdle(caller.calls)
         ELSE IF Refused(article) THEN CallerNext(caller)
         ELSE [caller EXCEPT !.pc = "generate"]
    /\ UNCHANGED <<sent_mails, next_mail_id, threads, next_thread, mailer,
                   clock, host_east, in_flight_at_limit>>
    /\ UNCHANGED tierVars

\* the execution of _send_mail that process_article starts for mail_data
NewSend(id, delayed, article) ==
    [id |-> id, delayed |-> delayed, ptt_id |-> article.author,
     article_id |-> article.article_id, pc |-> "login", success |-> FALSE]

\* lines 96-122: generate_mail_content, then send now or start delayed_send
mail_generate ==
    LET article == Head(caller.todo) IN
    /\ caller.pc = "generate"
    /\ \E generated \in BOOLEAN :
         IF ~generated
         THEN /\ caller' = [caller EXCEPT !.pc = "dropped"]
              /\ UNCHANGED <<threads, next_thread>>
         ELSE IF caller.immediate
         THEN /\ caller' = [caller EXCEPT !.pc = "sending"]
              /\ threads' = threads \cup {NewSend(0, FALSE, article)}
              /\ UNCHANGED next_thread
         ELSE /\ next_thread <= MaxThreads
              /\ threads' = threads \cup {NewSend(next_thread, TRUE, article)}
              /\ next_thread' = next_thread + 1
              /\ caller' = CallerNext(caller)
    /\ UNCHANGED <<sent_mails, next_mail_id, mailer, clock, host_east, in_flight_at_limit>>
    /\ UNCHANGED tierVars

\* lines 103-105: no subject or no body, the error is logged, False returned
mail_drop ==
    /\ caller.pc = "dropped"
    /\ dropped' = dropped \cup {Head(caller.todo).article_id}
    /\ caller' = CallerNext(caller)
    /\ UNCHANGED <<sent_mails, next_mail_id, threads, next_thread, mailer,
                   clock, host_east, in_flight_at_limit, intake, hour>>
    /\ UNCHANGED <<dbVars, now, crawl, hourly, cleanup, delivered>>

(***************************************************************************)
(* _send_mail, run by the caller (immediate) or by a delayed_send thread   *)
(* once its sleep is over, on the one PTTMailer of the service.            *)
(***************************************************************************)
SetThread(t, new) == (threads \ {t}) \cup {new}

\* PTTMailer.login taken as one step, lines 163-172 of _send_mail
mail_login(t) ==
    /\ t \in threads /\ t.pc = "login"
    /\ \E created \in BOOLEAN, logged \in BOOLEAN :
         /\ mailer.is_logged_in => (logged /\ ~created)
         /\ (~mailer.is_logged_in /\ logged) => created
         /\ mailer' = [is_logged_in |-> logged,
                       ptt_bot |-> IF created THEN PttBot ELSE mailer.ptt_bot]
         /\ threads' = SetThread(t, IF logged THEN [t EXCEPT !.pc = "send"]
                                    ELSE [t EXCEPT !.pc = "record", !.success = FALSE])
    /\ UNCHANGED <<sent_mails, next_mail_id, caller, next_thread,
                   clock, host_east, in_flight_at_limit>>
    /\ UNCHANGED tierVars

\* PTTMailer.send_mail, line 175: refused without a session
mail_send(t) ==
    /\ t \in threads /\ t.pc = "send"
    /\ \E accepted \in BOOLEAN :
         threads' = SetThread(t, [t EXCEPT !.pc = "record",
                                           !.success = /\ mailer.is_logged_in
                                                       /\ mailer.ptt_bot # NULL
                                                       /\ accepted])
    /\ UNCHANGED <<sent_mails, next_mail_id, caller, next_thread, mailer,
                   clock, host_east, in_flight_at_limit>>
    /\ UNCHANGED tierVars

\* sends that have not written their record yet, other than t
Unrecorded(t) ==
    {o \in threads \ {t} : o.pc \in {"login", "login_wait", "send", "record"}}

\* MailTracker.record_sent, lines 165-171 and 178-184
mail_record(t) ==
    /\ t \in threads /\ t.pc = "record"
    /\ sent_mails' = sent_mails \cup {NewMailRecord(t.ptt_id, t.article_id, t.success)}
    /\ next_mail_id' = next_mail_id + 1
    /\ threads' = SetThread(t, [t EXCEPT !.pc = "logout"])
    /\ in_flight_at_limit' =
         IF get_today_count < DAILY_LIMIT /\ TodayCount(sent_mails', clock) = DAILY_LIMIT
         THEN [queued |-> Cardinality({o \in Unrecorded(t) : o.delayed}),
               passed |-> Cardinality(Unrecorded(t))
                          + (IF caller.pc = "generate" THEN 1 ELSE 0)]
         ELSE in_flight_at_limit
    /\ UNCHANGED <<caller, next_thread, mailer, clock, host_east>>
    /\ UNCHANGED tierVars

\* _send_mail returns: a delayed_send thread ends, an immediate call goes on
SendReturns(t) ==
    /\ threads' = threads \ {t}
    /\ caller' = IF t.delayed THEN caller ELSE CallerNext(caller)

\* PTTMailer.logout taken as one step, in the finally clause, lines 198-200
mail_logout(t) ==
    /\ t \in threads /\ t.pc = "logout"
    /\ mailer' = IF mailer.ptt_bot # NULL /\ mailer.is_logged_in
                 THEN [is_logged_in |-> FALSE, ptt_bot |-> NULL]
                 ELSE mailer
    /\ SendReturns(t)
    /\ UNCHANGED <<sent_mails, next_mail_id, next_thread, clock, host_east,
                   in_flight_at_limit>>
    /\ UNCHANGED tierVars

(***************************************************************************)
(* The same send, statement by statement where it touches the PTTMailer,   *)
(* as the delayed_send threads interleave on the one mailer object.        *)
(***************************************************************************)
\* ptt_mailer.py lines 30-44: already logged in, or a new API starts its login
mailer_login_enter(t) ==
    /\ t \in threads /\ t.pc = "login"
    /\ IF mailer.is_logged_in
       THEN /\ threads' = SetThread(t, [t EXCEPT !.pc = "send"])
            /\ UNCHANGED mailer
       ELSE /\ threads' = SetThread(t, [t EXCEPT !.pc = "login_wait"])
            /\ mailer' = [mailer EXCEPT !.ptt_bot = PttBot]
    /\ UNCHANGED <<sent_mails, next_mail_id, caller, next_thread,
                   clock, host_east, in_flight_at_limit>>
    /\ UNCHANGED tierVars

\* ptt_mailer.py lines 44-60: the login call returns or raises
mailer_login_return(t) ==
    /\ t \in threads /\ t.pc = "login_wait"
    /\ \E logged \in BOOLEAN :
         IF logged
         THEN /\ mailer' = [mailer EXCEPT !.is_logged_in = TRUE]
              /\ threads' = SetThread(t, [t EXCEPT !.pc = "send"])
         ELSE /\ threads' = SetThread(t, [t EXCEPT !.pc = "record", !.success = FALSE])
              /\ UNCHANGED mailer
    /\ UNCHANGED <<sent_mails, next_mail_id, caller, next_thread,
                   clock, host_east, in_flight_at_limit>>
    /\ UNCHANGED tierVars

\* record_sent raises in the try block (lines 165-184); the except clause
\* (lines 188-197) calls it with success=False, and it raises again or writes
mail_record_fails(t) ==
    /\ t \in threads /\ t.pc = "record"
    /\ threads' = SetThread(t, [t EXCEPT !.pc = "logout"])
    /\ \E again \in BOOLEAN :
         IF again
         THEN UNCHANGED <<sent_mails, next_mail_id>>
         ELSE /\ sent_mails' = sent_mails \cup {NewMailRecord(t.ptt_id, t.article_id, FALSE)}
              /\ next_mail_id' = next_mail_id + 1
    /\ UNCHANGED <<caller, next_thread, mailer, clock, host_east, in_flight_at_limit>>
    /\ UNCHANGED tierVars

\* ptt_mailer.py lines 101-106: nothing to release, or ptt_bot.logout()
mailer_logout_enter(t) ==
    /\ t \in threads /\ t.pc = "logout"
    /\ IF mailer.ptt_bot # NULL /\ mailer.is_logged_in
       THEN /\ threads' = SetThread(t, [t EXCEPT !.pc = "logout_flag"])
            /\ UNCHANGED caller
       ELSE SendReturns(t)
    /\ UNCHANGED <<sent_mails, next_mail_id, next_thread, mailer,
                   clock, host_east, in_flight_at_limit>>
    /\ UNCHANGED tierVars

\* ptt_mailer.py line 108: self.is_logged_in = False
mailer_logout_flag(t) ==
    /\ t \in threads /\ t.pc = "logout_flag"
    /\ mailer' = [mailer EXCEPT !.is_logged_in = FALSE]
    /\ threads' = SetThread(t, [t EXCEPT !.pc = "logout_bot"])
    /\ UNCHANGED <<sent_mails, next_mail_id, caller, next_thread,
                   clock, host_east, in_flight_at_limit>>
    /\ UNCHANGED tierVars

\* ptt_mailer.py line 109: self.ptt_bot = None; logout and _send_mail return
mailer_logout_bot(t) ==
    /\ t \in threads /\ t.pc = "logout_bot"
    /\ mailer' = [mailer EXCEPT !.ptt_bot = NULL]
    /\ SendReturns(t)
    /\ UNCHANGED <<sent_mails, next_mail_id, next_thread,
                   clock, host_east, in_flight_at_limit>>
    /\ UNCHANGED tierVars

\* half a day passes
mail_tick ==
    /\ clock < MaxClock
    /\ clock' = clock + 1
    /\ in_flight_at_limit' =
         IF LocalDateAt(clock') # LocalDateAt(clock)
         THEN [queued |-> 0, passed |-> 0] ELSE in_flight_at_limit
    /\ UNCHANGED <<sent_mails, next_mail_id, caller, threads, next_thread,
                   mailer, host_east>>
    /\ UNCHANGED tierVars

\* the personalized path
NextMail ==
    \/ mail_call
    \/ mail_check
    \/ mail_generate
    \/ mail_drop
    \/ \E t \in threads : mail_login(t)
    \/ \E t \in threads : mail_send(t)
    \/ \E t \in threads : mail_record(t)
    \/ \E t \in threads : mail_logout(t)
    \/ mail_tick

\* the state after construction at 07:00, on a host of either zone
InitMail == Init /\ hour = SCHEDULE_START_HOUR

SpecMail == InitMail /\ [][NextMail]_vars

\* lines 137-143: delayed_send runs in a daemon thread, which ends with the
\* process wherever it is; the service that starts afterwards is a new
\* AutoMailService over the same ledger file
process_exits ==
    /\ threads # {} \/ caller.pc # "idle"
    /\ threads' = {}
    /\ caller' = CallerIdle(caller.calls)
    /\ mailer' = [is_logged_in |-> FALSE, ptt_bot |-> NULL]
    /\ UNCHANGED <<sent_mails, next_mail_id, next_thread, clock, host_east,
                   in_flight_at_limit>>
    /\ UNCHANGED tierVars

\* the personalized path in a process that may stop and start again
NextQueue ==
    \/ NextMail
    \/ process_exits

SpecQueue == InitMail /\ [][NextQueue]_vars

\* the personalized path with the mailer taken statement by statement and a
\* ledger that may refuse a write
NextSession ==
    \/ mail_call
    \/ mail_check
    \/ mail_generate
    \/ mail_drop
    \/ \E t \in threads : mailer_login_enter(t)
    \/ \E t \in threads : mailer_login_return(t)
    \/ \E t \in threads : mail_send(t)
    \/ \E t \in threads : mail_record(t)
    \/ \E t \in threads : mail_record_fails(t)
    \/ \E t \in threads : mailer_logout_enter(t)
    \/ \E t \in threads : mailer_logout_flag(t)
    \/ \E t \in threads : mailer_logout_bot(t)

SpecSession == InitUTC /\ [][NextSession]_vars

(***************************************************************************)
(* The steps of each task, and the specifications of the tiered path.      *)
(***************************************************************************)
Admin(ids) ==
    \/ \E u \in ids, t \in UserTier : add_user(u, t)
    \/ \E u \in ids, t \in UserTier : update_user_tier(u, t)

Crawl(p, feed) ==
    \/ crawl_start(p)
    \/ crawl_fetch(p, feed)
    \/ crawl_lookup(p)
    \/ crawl_create(p)
    \/ crawl_push(p)
    \/ crawl_record(p)
    \/ crawl_mark(p)
    \/ crawl_standard(p)

Hourly(h) ==
    \/ hourly_start(h)
    \/ hourly_pending(h)
    \/ hourly_push(h)
    \/ hourly_mark(h)

Cleanup ==
    \/ cleanup_select
    \/ cleanup_delete_notifications
    \/ cleanup_delete_articles
    \/ cleanup_fail

\* every task of the tiered path, one recipient and one natural key
Next ==
    \/ Admin({"r1"})
    \/ \E p \in CrawlProcs : Crawl(p, Batches({"A1"}))
    \/ \E h \in HourlyProcs : Hourly(h)
    \/ Cleanup
    \/ advance_day

Spec == InitUTC /\ [][Next]_vars

\* intake and both batched ticks over two recipients, no retention purge
NextFanout ==
    \/ Admin(LineUserIds)
    \/ Crawl("crawl_job", Batches({"A1"}))
    \/ \E h \in HourlyProcs : Hourly(h)

SpecFanout == InitUTC /\ [][NextFanout]_vars

\* intake, batched tick and purge over two natural keys
NextRetention ==
    \/ Admin({"r1"})
    \/ Crawl("crawl_job", Batches(PttArticleIds))
    \/ Hourly("hourly_notification_job")
    \/ Cleanup
    \/ advance_day

SpecRetention == InitUTC /\ [][NextRetention]_vars

\* the scheduled intake over two natural keys, where a tick may be cut short;
\* the interval trigger keeps starting ticks and a started tick keeps running
NextAbort ==
    \/ Admin({"r1"})
    \/ Crawl("crawl_job", Batches(PttArticleIds))
    \/ crawl_abort("crawl_job")

SpecAbort ==
    InitUTC /\ [][NextAbort]_vars /\ WF_vars(Crawl("crawl_job", Batches(PttArticleIds)))

\* the scheduled and the manually triggered intake over two natural keys
NextRace ==
    \/ Admin({"r1"})
    \/ \E p \in CrawlProcs : Crawl(p, Batches(PttArticleIds))

SpecRace == InitUTC /\ [][NextRace]_vars

\* the ledger functions of crud.py called directly, beside the scheduled intake
NextCrud ==
    \/ Admin({"r1"})
    \/ Crawl("crawl_job", Batches({"A1"}))
    \/ \E u \in LineUserIds, a \in 1..MaxArticles : create_notification(u, a)
    \/ \E id \in 1..MaxRecords : mark_notification_sent(id)
    \/ advance_day

SpecCrud == InitUTC /\ [][NextCrud]_vars

\* keys of the articles a standard user's backlog refers to
BacklogKeys == <<"B1", "B2", "B3", "B4", "B5", "B6", "B7", "B8", "B9", "B10", "B11", "B12">>

\* the state when a batched tick starts with k articles taken in since the
\* last one: each has its pending record for the standard user r1
InitBacklog ==
    /\ \E k \in 1..MaxBacklog :
         /\ articles = {[id |-> i, article_id |-> BacklogKeys[i], created_at |-> 0] : i \in 1..k}
         /\ notifications = {[id |-> i, user_id |-> "r1", article_id |-> i,
                              sent_at |-> NULL] : i \in 1..k}
         /\ next_article_id = k + 1
         /\ next_notification_id = k + 1
    /\ users = ("r1" :> [tier |-> STANDARD, is_active |-> TRUE])
    /\ now = 0
    /\ crawl = [p \in CrawlProcs |-> CrawlIdle]
    /\ hourly = [h \in HourlyProcs |-> HourlyIdle]
    /\ cleanup = CleanupIdle
    /\ delivered = [x \in LineUserIds \X (1..MaxBacklog) |-> 0]
    /\ sent_mails = {}
    /\ next_mail_id = 1
    /\ caller = CallerIdle(0)
    /\ threads = {}
    /\ next_thread = 1
    /\ mailer = [is_logged_in |-> FALSE, ptt_bot |-> NULL]
    /\ clock = 0
    /\ host_east = FALSE
    /\ in_flight_at_limit = [queued |-> 0, passed |-> 0]
    /\ intake = NoIntake
    /\ dropped = {}
    /\ hour = SCHEDULE_START_HOUR

\* the batched ticks over a backlog: the hourly job and POST /trigger/hourly
NextBundle ==
    \/ Hourly("hourly_notification_job")
    \/ Hourly("trigger_hourly")

SpecBundle == InitBacklog /\ [][NextBundle]_vars

\* line 142 with success = True: the call to the transport went through
hourly_push_succeeds(h) ==
    hourly_push(h) /\ hourly'[h].pc = "mark"

\* intake and the hourly job: the cron trigger keeps starting batched ticks, a
\* started tick runs to its end, and the transport does not fail for ever
NextBatched ==
    \/ Admin({"r1"})
    \/ Crawl("crawl_job", Batches({"A1"}))
    \/ Hourly("hourly_notification_job")

SpecBatched ==
    /\ InitUTC /\ [][NextBatched]_vars
    /\ WF_vars(Hourly("hourly_notification_job"))
    /\ SF_vars(hourly_push_succeeds("hourly_notification_job"))

\* the scheduled intake while the board lists A1: a fetch may fail or come
\* back empty, but not for ever (the network error is transient)
NextFeed ==
    \/ Admin({"r1"})
    \/ Crawl("crawl_job", Batches({"A1"}))

SpecFeed ==
    /\ InitUTC /\ [][NextFeed]_vars
    /\ WF_vars(Crawl("crawl_job", Batches({"A1"})))
    /\ SF_vars(crawl_fetch("crawl_job", {<<"A1">>}))

\* the intake, scheduled and triggered, and the batched tick round the clock
NextWindow ==
    \/ Admin({"r1"})
    \/ \E p \in CrawlProcs : Crawl(p, Batches({"A1"}))
    \/ Hourly("hourly_notification_job")
    \/ hour_passes

SpecWindow == InitUTC /\ [][NextWindow]_vars

(***************************************************************************)
(* The keyword filters of the two paths, applied to one candidate post.    *)
(***************************************************************************)
Candidates == [title : Texts, content : Texts]

InitIntake ==
    /\ articles = {}
    /\ notifications = {}
    /\ users = [u \in {} |-> 0]
    /\ next_article_id = 1
    /\ next_notification_id = 1
    /\ now = 0
    /\ crawl = [p \in CrawlProcs |-> CrawlIdle]
    /\ hourly = [h \in HourlyProcs |-> HourlyIdle]
    /\ cleanup = CleanupIdle
    /\ delivered = [x \in LineUserIds \X (1..MaxArticles) |-> 0]
    /\ sent_mails = {}
    /\ next_mail_id = 1
    /\ caller = CallerIdle(0)
    /\ threads = {}
    /\ next_thread = 1
    /\ mailer = [is_logged_in |-> FALSE, ptt_bot |-> NULL]
    /\ clock = 0
    /\ host_east = FALSE
    /\ in_flight_at_limit = [queued |-> 0, passed |-> 0]
    /\ intake \in {[NoIntake EXCEPT !.candidate = c] : c \in Candidates}
    /\ dropped = {}
    /\ hour = SCHEDULE_START_HOUR

\* ptt_scraper.py line 117: filter_by_keywords over the parsed list
scraper_filter ==
    /\ ~intake.scraped
    /\ intake' = [intake EXCEPT !.scraped = TRUE,
                                !.filtered = filter_by_keywords(<<intake.candidate>>,
                                                                keywords_list)]
    /\ UNCHANGED <<dbVars, now, crawl, hourly, cleanup, delivered>>
    /\ UNCHANGED <<sent_mails, next_mail_id, caller, threads, next_thread, mailer,
                   clock, host_east, in_flight_at_limit, dropped, hour>>

\* auto_mail_service.py line 221: check_article_keywords in the batch loop
batch_keywords ==
    /\ ~intake.checked
    /\ intake' = [intake EXCEPT !.checked = TRUE,
                                !.accepted = check_article_keywords(intake.candidate)]
    /\ UNCHANGED <<dbVars, now, crawl, hourly, cleanup, delivered>>
    /\ UNCHANGED <<sent_mails, next_mail_id, caller, threads, next_thread, mailer,
                   clock, host_east, in_flight_at_limit, dropped, hour>>

NextIntake ==
    \/ scraper_filter
    \/ batch_keywords

SpecIntake == InitIntake /\ [][NextIntake]_vars

(***************************************************************************)
(* Properties.                                                             *)
(***************************************************************************)

\* C1: in every reachable state the articles table holds at most one row
\* per natural key (article_id), whatever the interleaving of the scheduled
\* and the manually triggered crawl_and_notify.
C1_OneItemPerKey ==
    \A a, b \in articles : a.article_id = b.article_id => a.id = b.id

\* two ticks raced on the same key: one stored it, the other is about to insert it
C1_Witness ==
    \E p \in CrawlProcs :
        /\ crawl[p].pc = "create"
        /\ UniqueViolation(Head(crawl[p].articles))

\* rows of the ledger for one (recipient, item) pair
RecordsOf(ns, user_id, article) ==
    {n \in ns : n.user_id = user_id /\ n.article_id = article}

\* C2: repeat intake is a no-op.  A tick that meets a candidate whose key is
\* stored leaves articles, notifications and the transport untouched and
\* moves to the next candidate; a tick fans out only the row it has just
\* inserted; and when the immediate send returned true, the pair has exactly
\* one record and it is marked sent.
C2_RepeatIntakeStep ==
    \A p \in CrawlProcs :
        LET c == crawl[p] IN
        /\ (/\ c.pc = "loop" /\ c.articles # <<>>
            /\ Head(c.articles) # NoArticleId
            /\ get_article_by_ptt_id(Head(c.articles)) # NULL
            /\ crawl'[p] # c)
           => /\ articles' = articles
              /\ notifications' = notifications
              /\ delivered' = delivered
              /\ crawl'[p] = [c EXCEPT !.articles = Tail(@)]
        /\ (c.pc \in {"loop", "create"} /\ crawl'[p].pc \in {"push", "standard"})
           => /\ crawl'[p].db_article \notin ArticleRowIds
              /\ \E a \in articles' : /\ a.id = crawl'[p].db_article
                                      /\ a.article_id = Head(c.articles)
        /\ (c.pc = "mark" /\ crawl'[p].pc # "mark" /\ c.db_article \in ArticleRowIds)
           => \E n \in notifications' :
                 /\ RecordsOf(notifications', Head(c.todo_premium), c.db_article) = {n}
                 /\ n.sent_at # NULL

C2_RepeatIntakeNoOp == [][C2_RepeatIntakeStep]_vars

\* a tick is about to look up a key that is stored with a sent record
C2_Witness ==
    \E p \in CrawlProcs :
        /\ crawl[p].pc = "loop" /\ crawl[p].articles # <<>>
        /\ get_article_by_ptt_id(Head(crawl[p].articles)) # NULL
        /\ \E n \in notifications :
              /\ n.article_id = get_article_by_ptt_id(Head(crawl[p].articles))
              /\ n.sent_at # NULL

\* C3: in every reachable state there is at most one notifications row per
\* (user, article) pair.
C3_OneRecordPerPair ==
    \A n, m \in notifications :
        (n.user_id = m.user_id /\ n.article_id = m.article_id) => n.id = m.id

\* a pair has its record while another tick sees the same key again
C3_Witness ==
    \E p \in CrawlProcs, n \in notifications :
        /\ crawl[p].pc = "loop" /\ crawl[p].articles # <<>>
        /\ get_article_by_ptt_id(Head(crawl[p].articles)) = n.article_id
        /\ users[n.user_id].tier = PREMIUM

\* C4: for every (recipient, item) pair at most one transport call that
\* contains the item succeeds.
C4_NoDoubleDelivery ==
    \A x \in DOMAIN delivered : delivered[x] <= 1

\* C5: the ledger holds at most one successful send record per recipient
\* (ptt_id), whatever calls and delayed sends have taken place.
C5_OneSuccessPerRecipient ==
    \A r1, r2 \in sent_mails :
        (r1.ptt_id = r2.ptt_id /\ r1.success /\ r2.success) => r1.id = r2.id

\* C6: the ledger never holds more than one record for the same article_id.
C6_OneRecordPerArticle ==
    \A r1, r2 \in sent_mails : r1.article_id = r2.article_id => r1.id = r2.id

C8_SecondDropped ==
    ~(/\ DAILY_LIMIT = 1
      /\ caller.calls = 1 /\ caller.batch /\ ~caller.immediate
      /\ caller.pc = "generate"
      /\ next_thread = 2
      /\ \A t \in threads : t.ptt_id # Head(caller.todo).author
      /\ \A r \in sent_mails : r.ptt_id # Head(caller.todo).author)

\* C9: tier isolation.  When the fanout of a new item ends, every recipient of
\* the tick's snapshot, immediate or batched, has its own record for the item;
\* marking the immediate recipient's record leaves every other record as it
\* was; a batched tick marks only records of the recipient it sent to.
C9_TierIsolationStep ==
    /\ \A p \in CrawlProcs :
        LET c == crawl[p] IN
        /\ (/\ c.pc = "standard" /\ crawl'[p].pc = "loop"
            /\ c.premium_users # <<>> /\ c.standard_users # <<>>
            /\ c.db_article \in ArticleRowIds)
           => \A u \in Range(c.premium_users) \cup Range(c.standard_users) :
                 Cardinality(RecordsOf(notifications, u, c.db_article)) = 1
        /\ (c.pc = "mark" /\ crawl'[p].pc # "mark")
           => \A n \in notifications :
                 n.id # c.notification => n \in notifications'
    /\ \A h \in HourlyProcs :
        LET c == hourly[h] IN
        (c.pc = "mark" /\ hourly'[h].pc # "mark")
           => \A n \in notifications :
                 n.user_id # Head(c.standard_users) => n \in notifications'

C9_TierIsolation == [][C9_TierIsolationStep]_vars

\* C10: retention.  No notifications row ever refers to an article that is
\* not stored; when delete_old_articles commits, no article older than its
\* cutoff remains, every other article keeps its row and its records, and
\* the returned count is the number of articles removed.
C10_NoOrphan ==
    \A n \in notifications : n.article_id \in ArticleRowIds

C10_PurgeStep ==
    (cleanup.pc = "delete_articles" /\ cleanup'.pc = "idle" /\ articles' # articles)
    => /\ \A a \in articles' : ~(a.created_at < cleanup.cutoff_date)
       /\ \A a \in articles :
             ~(a.created_at < cleanup.cutoff_date)
             => /\ a \in articles'
                /\ {n \in notifications' : n.article_id = a.id}
                      = {n \in notifications : n.article_id = a.id}
       /\ cleanup'.count = Cardinality(articles \ articles')

C10_Retention == []C10_NoOrphan /\ [][C10_PurgeStep]_vars

\* the purge is about to commit while an old article with a record and a
\* younger article with a record are both stored
C10_Witness ==
    /\ cleanup.pc = "delete_articles"
    /\ ~ForeignKeyViolation
    /\ \E a, b \in articles :
          /\ a.created_at < cleanup.cutoff_date
          /\ ~(b.created_at < cleanup.cutoff_date)
          /\ \E n, m \in notifications : n.article_id = a.id /\ m.article_id = b.id

\* the tick p is fanning out the row article with user_id among the
\* standard users of its snapshot
InFanout(p, user_id, article) ==
    /\ crawl[p].pc \in {"push", "record", "mark", "standard"}
    /\ crawl[p].db_article = article
    /\ user_id \in Range(crawl[p].standard_users)

\* C11: no missed delivery after an aborted tick.  Whenever a tick has stored
\* an item and a BATCHED recipient is in its snapshot, then eventually the
\* recipient has a record for the item or the item is no longer stored, even
\* if the tick is cut short after the insert: a later tick makes up for it.
C11_NoMissedDelivery ==
    \A u \in LineUserIds, a \in 1..MaxArticles :
        InFanout("crawl_job", u, a)
            ~> (has_notification_for_article(u, a) \/ a \notin ArticleRowIds)

\* C12: failure isolation.  A transport failure for one recipient leaves the
\* tick running on the same batch: the intake tick goes on with the next
\* premium user or with the standard users of the same item, and when the
\* fanout of the item ends every standard user of the snapshot has a record
\* for it and the tick moves to the next candidate; the batched tick goes on
\* with the next standard user and leaves the ledger as it was.
C12_FailureIsolationStep ==
    /\ \A p \in CrawlProcs :
         LET c == crawl[p] IN
         /\ (c.pc = "push" /\ crawl'[p] # c /\ delivered' = delivered)
            => /\ crawl'[p].pc \in {"push", "standard"}
               /\ crawl'[p].pc = "push" <=> Len(c.todo_premium) > 1
               /\ crawl'[p].pc = "push" => crawl'[p].todo_premium = Tail(c.todo_premium)
               /\ crawl'[p].articles = c.articles
               /\ crawl'[p].db_article = c.db_article
               /\ crawl'[p].todo_standard = c.standard_users
               /\ notifications' = notifications
         /\ (c.pc = "standard" /\ crawl'[p].pc # "standard")
            => /\ crawl'[p].pc = "loop"
               /\ crawl'[p].articles = Tail(c.articles)
               /\ \A u \in Range(c.standard_users) :
                     has_notification_for_article(u, c.db_article)
    /\ \A h \in HourlyProcs :
         LET c == hourly[h] IN
         (c.pc = "push" /\ hourly'[h] # c /\ delivered' = delivered)
            => /\ hourly'[h].pc = "user"
               /\ hourly'[h].standard_users = Tail(c.standard_users)
               /\ notifications' = notifications

C12_FailureIsolation == [][C12_FailureIsolationStep]_vars

\* the push to the first premium user failed and the tick is at the second one
C12_Witness ==
    LET c == crawl["crawl_job"] IN
    /\ c.pc = "push"
    /\ Len(c.premium_users) = 2 /\ Len(c.todo_premium) = 1
    /\ delivered[<<c.premium_users[1], c.db_article>>] = 0
    /\ ~has_notification_for_article(c.premium_users[1], c.db_article)

\* C13: when a tick's insert fails because another tick has stored the same
\* natural key, and the next candidate of its batch is a new one, the losing
\* tick skips the refused candidate and goes on with the rest of its batch.
C13_LoserGoesOnStep ==
    \A p \in CrawlProcs :
        LET c == crawl[p] IN
        (/\ c.pc = "create"
         /\ UniqueViolation(Head(c.articles))
         /\ Len(c.articles) > 1
         /\ c.articles[2] # NoArticleId
         /\ get_article_by_ptt_id(c.articles[2]) = NULL
         /\ crawl'[p] # c)
        => crawl'[p] = [c EXCEPT !.pc = "loop", !.articles = Tail(@)]

C13_LoserGoesOn == [][C13_LoserGoesOnStep]_vars

\* C14: the immediate tier records every outcome.  When the premium loop of
\* a tick leaves a user, whether the push succeeded or failed, the ledger
\* holds a record for that user and the item being fanned out.
C14_RecordsEveryOutcomeStep ==
    \A p \in CrawlProcs :
        LET c == crawl[p] IN
        (/\ c.pc \in {"push", "record", "mark"}
         /\ crawl'[p].pc \in {"push", "standard"}
         /\ crawl'[p].todo_premium # c.todo_premium)
        => \E n \in notifications' :
              n.user_id = Head(c.todo_premium) /\ n.article_id = c.db_article

C14_RecordsEveryOutcome == [][C14_RecordsEveryOutcomeStep]_vars

\* C15: batched bundling.  In a batched tick a standard user without pending
\* records gets no transport call; a user with k pending records (k within
\* the bundle cap) is visited once and gets one call that delivers every one
\* of the k items; after a successful call all k records are marked sent; a
\* failed call leaves the ledger and the deliveries as they were.
C15_BundlingStep ==
    \A h \in HourlyProcs :
        LET c == hourly[h]
            u == Head(c.standard_users)
            pending == get_pending_notifications_for_user(u)
        IN
        /\ (c.pc = "user" /\ c.standard_users # <<>> /\ hourly'[h] # c)
           => /\ delivered' = delivered /\ notifications' = notifications
              /\ pending = {} => hourly'[h].pc = "user"
              /\ pending # {} => /\ hourly'[h].pc = "push"
                                 /\ hourly'[h].notification_ids = {n.id : n \in pending}
                                 /\ Cardinality(pending) <= BundleCap
                                 /\ u \notin Range(Tail(c.standard_users))
        /\ (c.pc = "push" /\ hourly'[h].pc = "mark")
           => /\ notifications' = notifications
              /\ \A x \in DOMAIN delivered :
                    delivered'[x] = delivered[x] +
                        (IF /\ x[1] = u
                            /\ \E n \in notifications :
                                  n.id \in c.notification_ids /\ n.article_id = x[2]
                         THEN 1 ELSE 0)
        /\ (c.pc = "push" /\ hourly'[h] # c /\ hourly'[h].pc # "mark")
           => /\ notifications' = notifications /\ delivered' = delivered
              /\ hourly'[h].standard_users = Tail(c.standard_users)
        /\ (c.pc = "mark" /\ hourly'[h] # c)
           => /\ \A n \in notifications' : n.id \in c.notification_ids => n.sent_at # NULL
              /\ delivered' = delivered
              /\ hourly'[h].standard_users = Tail(c.standard_users)

C15_Bundling == [][C15_BundlingStep]_vars

\* one call has delivered a bundle of two items and the tick is about to mark them
C15_Witness ==
    LET c == hourly["hourly_notification_job"] IN
    /\ c.pc = "mark"
    /\ Cardinality(c.notification_ids) = 2
    /\ \A n \in notifications :
          n.id \in c.notification_ids
             => n.sent_at = NULL /\ delivered[<<Head(c.standard_users), n.article_id>>] = 1
    /\ Cardinality({n \in notifications : n.id \in c.notification_ids}) = 2

\* C16: session release.  Every execution of _send_mail ends with the
\* mailer not logged in, whatever its exit path; so once no send is under
\* way the mailer is not logged in.
C16_SessionReleased ==
    threads = {} => ~mailer.is_logged_in

\* C17: each send has its own session.  A send whose login has returned true
\* and which has not yet handed its mail to the transport still has its
\* session: no other send's logout has ended it.
C17_OwnSession ==
    \A t \in threads :
        t.pc = "send" => (mailer.is_logged_in /\ mailer.ptt_bot # NULL)

\* C18: the manual trigger reports the result of its tick.  When the tick
\* started by POST /trigger ends, the answer is "success" exactly when the
\* tick ran to the end of its batch, and "error" when it was cut short.
C18_TriggerReportsStep ==
    LET c == crawl["trigger"] IN
    (c.pc # "idle" /\ crawl'["trigger"].pc = "idle")
    => (trigger_crawl(crawl_and_notify_raises) = "success"
           <=> (c.pc = "loop" /\ c.articles = <<>>))

C18_TriggerReports == [][C18_TriggerReportsStep]_vars

\* C19: createPending is the single gate of the ledger.  No step adds a
\* record to a (recipient, item) pair that already has one: a create for such
\* a pair is refused and the ledger stays as it was.
C19_CreateRefusedStep ==
    \A u \in LineUserIds, a \in 1..MaxArticles :
        has_notification_for_article(u, a)
        => {n.id : n \in RecordsOf(notifications', u, a)}
              \subseteq {n.id : n \in RecordsOf(notifications, u, a)}

C19_CreateRefused == [][C19_CreateRefusedStep]_vars

\* C20: markSent is idempotent.  Marking a record that is already sent leaves
\* it as it was: no step changes the sent_at of a record that has one.
C20_MarkIdempotentStep ==
    \A n \in notifications, m \in notifications' :
        (n.id = m.id /\ n.sent_at # NULL) => m.sent_at = n.sent_at

C20_MarkIdempotent == [][C20_MarkIdempotentStep]_vars

(***************************************************************************)
(* C21: when the generator returns no subject or no body, process_article  *)
(* queues nothing, calls no transport and writes no ledger record, and the *)
(* article whose generation failed is never at the content generator       *)
(* again, in this intake or a later one that lists it.                     *)
(***************************************************************************)
AtGenerator(article_id) ==
    caller.pc = "generate" /\ Head(caller.todo).article_id = article_id

C21_DroppedForGood ==
    \A article_id \in dropped : ~AtGenerator(article_id)

(***************************************************************************)
(* The quota day of the specification: the successful records whose send   *)
(* time, read in the configured timezone, falls on that zone's date at t.  *)
(***************************************************************************)
DaySuccesses(ledger, t) ==
    {r \in ledger : r.success /\ ConfiguredDateAt(r.sent_at) = ConfiguredDateAt(t)}

(***************************************************************************)
(* C22: once the successful sends of the calendar day have reached         *)
(* DAILY_LIMIT, a process_article or process_articles_batch call that      *)
(* checks an article lets nothing through to generation and queuing (the   *)
(* batch returns at the first matching article), and when the calendar day *)
(* changes queuing is possible again.                                      *)
(***************************************************************************)
C22_QuotaStopStep ==
    /\ (/\ caller.pc = "check" /\ caller' # caller
        /\ Cardinality(DaySuccesses(sent_mails, clock)) >= DAILY_LIMIT)
       => /\ caller'.pc # "generate"
          /\ threads' = threads /\ sent_mails' = sent_mails
          /\ (caller.batch /\ check_article_keywords(Head(caller.todo)))
                => caller' = CallerIdle(caller.calls)
    /\ ConfiguredDateAt(clock') # ConfiguredDateAt(clock) => can_send_today'

C22_QuotaStop == [][C22_QuotaStopStep]_vars

(***************************************************************************)
(* C23: in every state can_send_today() is true exactly when the number of *)
(* successful ledger records of the current day is below DAILY_LIMIT, and  *)
(* get_remaining_quota() is max(0, DAILY_LIMIT - that number), so never    *)
(* negative; records with success = 0 are not counted.                     *)
(***************************************************************************)
C23_QuotaFromLedger ==
    LET used == Cardinality(DaySuccesses(sent_mails, clock)) IN
    /\ can_send_today <=> used < DAILY_LIMIT
    /\ get_remaining_quota = (IF used < DAILY_LIMIT THEN DAILY_LIMIT - used ELSE 0)
    /\ get_remaining_quota >= 0

(***************************************************************************)
(* C24: a batched tick marks sent only what it delivered: every record     *)
(* marked sent belongs to an item that was in a message handed to the      *)
(* Transport for its recipient, so with more pending records than the      *)
(* bundle cap the records of the items cut from the bundle stay pending.   *)
(***************************************************************************)
C24_MarkedWasDelivered ==
    \A n \in notifications :
        n.sent_at # NULL => delivered[<<n.user_id, n.article_id>>] >= 1

(***************************************************************************)
(* C25: for every (IMMEDIATE recipient, new item) pair the record is       *)
(* created before the Transport is called: no pair has been delivered      *)
(* without a record of it, also when the tick ends right after the send.   *)
(***************************************************************************)
C25_RecordBeforeCall ==
    \A x \in DOMAIN delivered :
        delivered[x] >= 1 => has_notification_for_article(x[1], x[2])

(***************************************************************************)
(* C26: immediate-tier failure is permanent.  If the Transport call for an *)
(* (IMMEDIATE recipient, item) pair fails during the intake tick that      *)
(* stored the item, no intake tick and no batched tick calls the Transport *)
(* for that pair afterwards, as long as the item stays in the store.       *)
(***************************************************************************)
\* the tick fanning out row a is past premium user u, whose push failed:
\* nothing was delivered and lines 92-94 were skipped
PushFailed(u, a) ==
    \E p \in CrawlProcs :
        LET c == crawl[p] IN
        /\ c.pc \in {"push", "standard"} /\ c.db_article = a
        /\ u \in Range(c.premium_users) /\ u \notin Range(c.todo_premium)
        /\ ~has_notification_for_article(u, a)
        /\ delivered[<<u, a>>] = 0

\* a tick is about to call the Transport for user u with row a in the message
TransportCall(u, a) ==
    \/ \E p \in CrawlProcs :
          /\ crawl[p].pc = "push" /\ crawl[p].db_article = a
          /\ Head(crawl[p].todo_premium) = u
    \/ \E h \in HourlyProcs :
          /\ hourly[h].pc = "push" /\ Head(hourly[h].standard_users) = u
          /\ a \in BundledArticles(hourly[h].notification_ids)

C26_FailurePermanent ==
    \A u \in LineUserIds, a \in 1..MaxArticles :
        [](PushFailed(u, a) => [](a \in ArticleRowIds => ~TransportCall(u, a)))

C26_Witness ==
    \E u \in LineUserIds, a \in 1..MaxArticles, h \in HourlyProcs :
        /\ PushFailed(u, a)
        /\ users[u].tier = STANDARD
        /\ hourly[h].pc = "user" /\ hourly[h].standard_users # <<>>
        /\ Head(hourly[h].standard_users) = u

(***************************************************************************)
(* C27: personalized failure is permanent for the item.  Once the ledger   *)
(* holds a record for an article_id, with success or failure, a            *)
(* process_article call that checks this article returns False: it does    *)
(* not reach the content generator, queues nothing and calls no transport. *)
(***************************************************************************)
C27_ProcessedRefusedStep ==
    (/\ caller.pc = "check" /\ caller' # caller
     /\ has_processed_article(Head(caller.todo).article_id))
    => /\ caller'.pc \in {"check", "idle"}
       /\ threads' = threads
       /\ sent_mails' = sent_mails
       /\ mailer' = mailer

C27_ProcessedRefused == [][C27_ProcessedRefusedStep]_vars

C27_Witness ==
    /\ caller.pc = "check"
    /\ \E r \in sent_mails :
         /\ r.article_id = Head(caller.todo).article_id /\ ~r.success
         /\ ~has_sent_to(Head(caller.todo).author)
    /\ can_send_today
    /\ check_article_keywords(Head(caller.todo))
    /\ Head(caller.todo).author # ""

(***************************************************************************)
(* C28: every personalized send attempt writes exactly one ledger record,  *)
(* whose success flag is the outcome of the attempt: 1 exactly when the    *)
(* login succeeded and the transport accepted the mail, 0 after a login    *)
(* failure, a rejection or an exception; and nothing else writes records.  *)
(***************************************************************************)
C28_OneRecordPerAttemptStep ==
    /\ \A t \in threads :
         (t.pc = "record" /\ t \notin threads')
         => \E r \in sent_mails' \ sent_mails :
               /\ sent_mails' = sent_mails \cup {r}
               /\ r.ptt_id = t.ptt_id /\ r.article_id = t.article_id
               /\ r.success = t.success
    /\ sent_mails' # sent_mails
         => \E t \in threads : t.pc = "record" /\ t \notin threads'

C28_OneRecordPerAttempt == [][C28_OneRecordPerAttemptStep]_vars

(***************************************************************************)
(* C29: the day used for the quota is the calendar day of the configured   *)
(* timezone: at every hour get_today_count is the number of successful     *)
(* records whose send time, read in the configured timezone, falls on the  *)
(* current date of that timezone, also when that date and the UTC date     *)
(* differ.                                                                 *)
(***************************************************************************)
C29_QuotaDay ==
    get_today_count = Cardinality(DaySuccesses(sent_mails, clock))

(***************************************************************************)
(* C30: a candidate passes intake exactly when at least one configured     *)
(* keyword occurs, compared case-insensitively, in its title or in its     *)
(* body; this holds for filter_by_keywords and for check_article_keywords, *)
(* which therefore accept the same candidates.                             *)
(***************************************************************************)
KeywordOccurs(candidate) ==
    \E j \in 1..Len(keywords_list) :
        \/ Occurs(lower(keywords_list[j]), lower(candidate.title))
        \/ Occurs(lower(keywords_list[j]), lower(candidate.content))

C30_KeywordFilter ==
    /\ intake.scraped => ((intake.filtered # <<>>) <=> KeywordOccurs(intake.candidate))
    /\ intake.checked => (intake.accepted <=> KeywordOccurs(intake.candidate))
    /\ (intake.scraped /\ intake.checked) => ((intake.filtered # <<>>) <=> intake.accepted)

(***************************************************************************)
(* C31: a feed failure is an empty tick.  When the fetch fails or returns  *)
(* no candidate the tick ends having changed neither the articles nor the  *)
(* notifications and without a Transport call, the job is ready to fetch   *)
(* again, and an item the board keeps listing is taken in by a later tick. *)
(***************************************************************************)
C31_EmptyTickStep ==
    \A p \in CrawlProcs :
        (crawl[p].pc = "fetch" /\ crawl'[p].pc \notin {"fetch", "loop"})
        => /\ crawl'[p] = CrawlIdle
           /\ UNCHANGED <<dbVars, delivered>>

C31_EmptyTick ==
    /\ [][C31_EmptyTickStep]_vars
    /\ <>(get_article_by_ptt_id("A1") # NULL)

C31_Witness ==
    /\ crawl["crawl_job"].pc = "fetch"
    /\ get_article_by_ptt_id("A1") = NULL
    /\ DOMAIN users # {}

(***************************************************************************)
(* C32: schedule window.  An intake tick, scheduled or triggered, that     *)
(* starts at a local hour outside SCHEDULE_START_HOUR <= h <               *)
(* SCHEDULE_END_HOUR fetches nothing and changes nothing; the batched tick *)
(* and the retention purge start at any hour.                              *)
(***************************************************************************)
C32_WindowStep ==
    \A p \in CrawlProcs :
        (crawl[p].pc = "idle" /\ ~(SCHEDULE_START_HOUR <= hour /\ hour < SCHEDULE_END_HOUR))
        => crawl'[p] = CrawlIdle

C32_Window ==
    /\ [][C32_WindowStep]_vars
    /\ [](hourly["hourly_notification_job"].pc = "idle"
            => ENABLED hourly_start("hourly_notification_job"))
    /\ [](cleanup.pc = "idle" => ENABLED cleanup_select)

C32_Witness ==
    /\ ~(SCHEDULE_START_HOUR <= hour /\ hour < SCHEDULE_END_HOUR)
    /\ crawl["crawl_job"].pc = "idle" /\ crawl["trigger"].pc = "idle"
    /\ hourly["hourly_notification_job"].pc = "push"
    /\ get_active_users_by_tier(PREMIUM) # {}

(***************************************************************************)
(* C33: stale pending records on tier change.  A pending record of a       *)
(* recipient whose tier went from BATCHED to IMMEDIATE is neither          *)
(* delivered nor marked sent by a tick that starts afterwards: a batched   *)
(* tick works on the recipients that were BATCHED when it started, only a  *)
(* batched tick that has the recipient in that list delivers or marks a    *)
(* pending record, and an intake tick marks only the record it has just    *)
(* created.                                                                *)
(***************************************************************************)
C33_StalePendingStep ==
    /\ \A h \in HourlyProcs :
          /\ (hourly[h].pc = "idle" /\ hourly'[h].pc # "idle")
                => \A u \in Range(hourly'[h].standard_users) : users[u].tier = STANDARD
          /\ hourly[h].pc # "idle"
                => Range(hourly'[h].standard_users) \subseteq Range(hourly[h].standard_users)
    /\ \A n \in notifications :
          (/\ n.sent_at = NULL
           /\ \/ \E m \in notifications' : m.id = n.id /\ m.sent_at # NULL
              \/ delivered'[<<n.user_id, n.article_id>>] > delivered[<<n.user_id, n.article_id>>])
          => \/ \E h \in HourlyProcs :
                  /\ hourly[h].pc \in {"push", "mark"}
                  /\ Head(hourly[h].standard_users) = n.user_id
             \/ \E p \in CrawlProcs :
                  crawl[p].pc = "mark" /\ crawl[p].notification = n.id

C33_StalePending == [][C33_StalePendingStep]_vars

C33_Witness ==
    \E u \in DOMAIN users, h \in HourlyProcs :
        /\ users[u].tier = PREMIUM
        /\ get_pending_notifications_for_user(u) # {}
        /\ hourly[h].pc = "user"
        /\ hourly[h].standard_users # <<>>
        /\ u \notin Range(hourly[h].standard_users)

(***************************************************************************)
(* C34: batched delivery liveness.  Every pending record of a recipient    *)
(* that stays active with tier BATCHED is eventually marked sent, when     *)
(* batched ticks keep occurring and the transport call eventually          *)
(* succeeds; a failed tick leaves the record pending for a later tick.     *)
(***************************************************************************)
PendingRecord(i) ==
    \E n \in notifications : n.id = i /\ n.sent_at = NULL

StaysBatched(i) ==
    \E n \in notifications :
        /\ n.id = i
        /\ n.user_id \in get_active_users_by_tier(STANDARD)

MarkedSent(i) ==
    \E n \in notifications : n.id = i /\ n.sent_at # NULL

C34_BatchedLiveness ==
    \A i \in 1..MaxRecords :
        [](PendingRecord(i) /\ []StaysBatched(i) => <>MarkedSent(i))

C34_Witness ==
    \E n \in notifications :
        /\ n.sent_at # NULL
        /\ n.user_id \in get_active_users_by_tier(STANDARD)
        /\ delivered[<<n.user_id, n.article_id>>] = 1
        /\ hourly["hourly_notification_job"].pc = "user"
        /\ hourly["hourly_notification_job"].standard_users = <<>>

(***************************************************************************)
(* C35: every queued personalized send reaches a recorded terminal state.  *)
(* A send queued in delayed mode does not leave the service before the     *)
(* ledger holds a record (SENT or FAILED) for its article and author,      *)
(* also when the process stops or restarts during the delay.               *)
(***************************************************************************)
C35_QueuedStep ==
    \A t \in threads :
        t.delayed =>
            \/ \E o \in threads' : o.id = t.id
            \/ \E r \in sent_mails' : r.article_id = t.article_id /\ r.ptt_id = t.ptt_id

C35_QueuedIsRecorded == [][C35_QueuedStep]_vars

(***************************************************************************)
(* C36: the lifecycle of a DeliveryRecord is monotonic.  A record is       *)
(* created pending (sent_at = NULL); a sent_at that is set is never set    *)
(* back to NULL; and a record is deleted only by the retention purge of    *)
(* its article, together with that article.                                *)
(***************************************************************************)
C36_LifecycleStep ==
    /\ \A m \in notifications' :
          (\A n \in notifications : n.id # m.id) => m.sent_at = NULL
    /\ \A n \in notifications, m \in notifications' :
          (m.id = n.id /\ n.sent_at # NULL) => m.sent_at # NULL
    /\ \A n \in notifications :
          (\A m \in notifications' : m.id # n.id)
          => /\ cleanup.pc = "delete_articles"
             /\ n.article_id \in cleanup.article_ids
             /\ \A a \in articles' : a.id # n.article_id

C36_Lifecycle == [][C36_LifecycleStep]_vars

C36_Witness ==
    /\ cleanup.count >= 1
    /\ next_notification_id > 1
    /\ \E n \in notifications : n.sent_at # NULL /\ n.article_id \in ArticleRowIds
    /\ Cardinality(notifications) < next_notification_id - 1

(***************************************************************************)
(* C37: only successful sends put a recipient in cooldown.  An article     *)
(* with all its fields, no ledger record of its own and an author without  *)
(* a successful record passes process_article's checks while quota is      *)
(* left, however many failed records the ledger holds for that author.     *)
(***************************************************************************)
C37_CooldownStep ==
    LET article == Head(caller.todo) IN
    (/\ caller.pc = "check"
     /\ caller.batch => check_article_keywords(article)
     /\ article.article_id # "" /\ article.author # "" /\ article.title # <<>>
     /\ \A r \in sent_mails : r.article_id # article.article_id
     /\ \A r \in sent_mails : r.ptt_id = article.author => ~r.success
     /\ can_send_today
     /\ caller' # caller)
    => caller'.pc = "generate"

C37_Cooldown == [][C37_CooldownStep]_vars

C37_Witness ==
    /\ caller.pc = "generate"
    /\ \E r \in sent_mails :
          /\ r.ptt_id = Head(caller.todo).author
          /\ ~r.success
          /\ r.article_id # Head(caller.todo).article_id

(***************************************************************************)
(* C38: a rejected candidate has no effect.  When process_article returns  *)
(* False because a required field is empty, the article has a ledger       *)
(* record, the author has a successful record or the daily quota is used   *)
(* up, the content generator is not called, nothing is queued, the         *)
(* transport is not called and the ledger is unchanged.                    *)
(***************************************************************************)
C38_RejectedStep ==
    LET article == Head(caller.todo) IN
    (/\ caller.pc = "check" /\ caller' # caller
     /\ \/ article.article_id = "" \/ article.author = "" \/ article.title = <<>>
        \/ \E r \in sent_mails : r.article_id = article.article_id
        \/ \E r \in sent_mails : r.ptt_id = article.author /\ r.success
        \/ get_today_count >= DAILY_LIMIT)
    => /\ caller'.pc \notin {"generate", "dropped", "sending"}
       /\ UNCHANGED <<threads, next_thread>>
       /\ UNCHANGED mailer
       /\ UNCHANGED <<sent_mails, next_mail_id>>

C38_RejectedNoEffect == [][C38_RejectedStep]_vars

C38_Witness ==
    /\ caller.pc = "check"
    /\ Head(caller.todo).author = ""
    /\ check_article_keywords(Head(caller.todo))
    /\ ~has_processed_article(Head(caller.todo).article_id)
    /\ can_send_today
    /\ sent_mails # {}

(***************************************************************************)
(* C39: the session state machine of PTTMailer.  is_logged_in implies      *)
(* that the connection object is present; send_mail without a session      *)
(* returns False; login with a session returns True and opens no second    *)
(* connection; and after logout the mailer is not logged in and holds no   *)
(* connection.                                                             *)
(***************************************************************************)
C39_Connected ==
    mailer'.is_logged_in => mailer'.ptt_bot # NULL

C39_SendNeedsSession ==
    \A t \in threads :
        (t.pc = "send" /\ ~mailer.is_logged_in)
        => \A o \in threads' : (o.id = t.id /\ o.pc = "record") => ~o.success

C39_LoginOnce ==
    \A t \in threads :
        (t.pc = "login" /\ mailer.is_logged_in /\ t \notin threads')
        => /\ \E o \in threads' : o.id = t.id /\ o.pc = "send"
           /\ mailer' = mailer

C39_AfterLogout ==
    \A t \in threads :
        (t.pc = "logout" /\ \A o \in threads' : o.id # t.id)
        => ~mailer'.is_logged_in /\ mailer'.ptt_bot = NULL

C39_SessionMachine ==
    [][C39_Connected /\ C39_SendNeedsSession /\ C39_LoginOnce /\ C39_AfterLogout]_vars

(***************************************************************************)
(* C40: recipient registration is idempotent.  get_or_create_user for a    *)
(* registered identifier changes nothing, whatever tier is passed;         *)
(* update_user_tier for an unknown identifier changes no recipient; and a  *)
(* step on the recipients either registers one new identifier and leaves   *)
(* the others as they are, or changes the tier of a registered one.        *)
(***************************************************************************)
C40_Registered ==
    \A u \in DOMAIN users, t \in UserTier : get_or_create_user(u, t) = users

C40_Unknown ==
    \A u \in LineUserIds \ DOMAIN users, t \in UserTier : ~ENABLED update_user_tier(u, t)

C40_OnePerIdentifierStep ==
    /\ DOMAIN users \subseteq DOMAIN users'
    /\ Cardinality(DOMAIN users' \ DOMAIN users) <= 1
    /\ DOMAIN users' # DOMAIN users => \A u \in DOMAIN users : users'[u] = users[u]
    /\ \A u \in DOMAIN users : users'[u].is_active = users[u].is_active

C40_Idempotent ==
    /\ [](C40_Registered /\ C40_Unknown)
    /\ [][C40_OnePerIdentifierStep]_vars

C40_Witness ==
    /\ DOMAIN users = {"r1"}
    /\ users["r1"].tier = PREMIUM
    /\ ENABLED add_user("r2", STANDARD)
    /\ ~ENABLED add_user("r1", STANDARD)

====
